---- MODULE Spec2Model ----
(***************************************************************************)
(* A model of sage.crypto.block_cipher.des: the DES cipher object (DES)    *)
(* and its key schedule (DES_KS).                                          *)
(*                                                                         *)
(* Python values are tagged records, objects live on a heap and are named  *)
(* by references, and every method is an operator from the heap and the    *)
(* arguments to an outcome: the kind of the outcome ("ok" or the name of   *)
(* the exception raised), the value returned, the methods of the module    *)
(* that were entered on the way, and the heap afterwards.                  *)
(*                                                                         *)
(* Spec      : a client constructing key schedules and ciphers and calling *)
(*             their methods.                                              *)
(* SpecEq    : a client comparing two key schedules and two ciphers.       *)
(* SpecShift : a client calling DES_KS._left_shift on one half.            *)
(***************************************************************************)
EXTENDS Integers, Sequences, FiniteSets

VARIABLES
    heap,       \* the objects constructed so far; a reference is an index
    last,       \* the last call the client made, and its outcome
    self,       \* SpecShift: the key schedule whose _left_shift is called
    half,       \* SpecShift: the bits of the vector the client holds
    orig,       \* SpecShift: the bits that vector was created with
    cur,        \* SpecShift: the half after the rounds applied so far
    round,      \* SpecShift: the number of rounds applied so far
    acc,        \* SpecShift: the sum of the amounts of those rounds
    shiftLast   \* SpecShift: the last single _left_shift call and its outcome

vars == <<heap, last, self, half, orig, cur, round, acc, shiftLast>>

objVars == <<heap, last>>
shiftVars == <<self, half, orig, cur, round, acc, shiftLast>>

(***************************************************************************)
(* Bounds of the model.                                                    *)
(***************************************************************************)
MaxObjects == 3      \* Spec: objects on the heap
MaxKey == 0          \* Spec: master keys and call keys are 0..MaxKey
MaxBlock == 0        \* Spec: blocks are 0..MaxBlock
MaxEqKey == 1        \* SpecEq: master keys are 0..MaxEqKey
MaxHalfLen == 4      \* every half of at most this many bits is tried
IndexSpan == 2       \* round indices reach IndexSpan beyond the table's ends

(***************************************************************************)
(* Python values.                                                          *)
(***************************************************************************)
PyInt(n) == [t |-> "int", v |-> n, s |-> ""]
PyStr(x) == [t |-> "str", v |-> 0, s |-> x]
PyRef(id) == [t |-> "ref", v |-> id, s |-> ""]
PyNone == [t |-> "NoneType", v |-> 0, s |-> ""]
PyFalse == [t |-> "bool", v |-> 0, s |-> ""]
\* An argument the caller did not pass: the signature's default takes its place.
Omitted == [t |-> "omitted", v |-> 0, s |-> ""]

Default(arg, d) == IF arg = Omitted THEN d ELSE arg

\* type(x).__name__
TypeOf(h, x) == IF x.t = "ref" THEN h[x.v].type ELSE x.t

\* hasattr(x, name): only objects of this module carry instance attributes here.
HasAttr(h, x, name) == x.t = "ref" /\ name \in DOMAIN h[x.v].dict

\* == between values that are not objects of this module: numbers (bool is a
\* subclass of int) compare by value, PyNone and strings with their own kind only.
IsNumber(x) == x.t \in {"int", "bool"}
PrimEq(a, b) ==
    IF IsNumber(a) /\ IsNumber(b) THEN a.v = b.v
    ELSE a.t = b.t /\ a.v = b.v /\ a.s = b.s

Outcome(kind, ret, calls, h) == [kind |-> kind, ret |-> ret, calls |-> calls, heap |-> h]

(***************************************************************************)
(* DES_KS                                                                  *)
(***************************************************************************)
DefaultRounds == 16

DES_KS___init__(h, rounds, master_key) ==
    LET obj == [type |-> "DES_KS",
                dict |-> [_rounds |-> Default(rounds, PyInt(DefaultRounds)),
                          _master_key |-> Default(master_key, PyNone)]]
    IN Outcome("ok", PyRef(Len(h) + 1), <<>>, Append(h, obj))

\* DES_KS.__call__(K): the derivation of the round keys is not implemented.
DES_KS___call__(h, ks, K) == Outcome("NotImplementedError", PyNone, <<"DES_KS.__call__">>, h)

\* Prefix the methods entered by the caller to those of the callee's outcome.
Entered(o, calls) == [o EXCEPT !.calls = calls \o @]

DES_KS___eq__Identity(h, a, other) == a = other

DES_KS___eq__(h, a, other) ==
    IF TypeOf(h, other) # "DES_KS" THEN FALSE
    ELSE LET d1 == h[a.v].dict
             d2 == h[other.v].dict
         IN DOMAIN d1 = DOMAIN d2 /\ \A k \in DOMAIN d1 : PrimEq(d1[k], d2[k])

DES_KS___getitem__Unguarded(h, ks, r) == DES_KS___call__(h, ks, h[ks.v].dict._master_key)

DES_KS___getitem__(h, ks, r) ==
    IF h[ks.v].dict._master_key = PyNone
    THEN Outcome("ValueError", PyNone, <<>>, h)
    ELSE \* self(self._master_key)[r]: the call raises before the subscript
         DES_KS___call__(h, ks, h[ks.v].dict._master_key)

DES_KS___iter__(h, ks) ==
    IF h[ks.v].dict._master_key = PyNone
    THEN Outcome("ValueError", PyNone, <<>>, h)
    ELSE DES_KS___call__(h, ks, h[ks.v].dict._master_key)

(***************************************************************************)
(* DES_KS._left_shift.  A half is a vector over GF(2): a sequence of bits. *)
(***************************************************************************)
Min(a, b) == IF a < b THEN a ELSE b
Max(a, b) == IF a > b THEN a ELSE b

amountRound16Two == <<1, 1, 2, 2, 2, 2, 2, 2, 1, 2, 2, 2, 2, 2, 2, 2>>

amount == <<1, 1, 2, 2, 2, 2, 2, 2, 1, 2, 2, 2, 2, 2, 2, 1>>

PyIndexInRangeNonNegative(list, idx) == 0 <= idx /\ idx < Len(list)

\* list[idx] raises IndexError unless -len(list) <= idx < len(list)
PyIndexInRange(list, idx) == -Len(list) <= idx /\ idx < Len(list)

\* list[idx], for an index in range: a negative index counts from the end
PyIndex(list, idx) == list[(IF idx < 0 THEN idx + Len(list) ELSE idx) + 1]

\* seq[lo:hi]: a slice clamps its ends to the sequence and never raises
SliceEnd(x, n) == IF x < 0 THEN Max(x + n, 0) ELSE Min(x, n)
PySlice(seq, lo, hi) == SubSeq(seq, SliceEnd(lo, Len(seq)) + 1, SliceEnd(hi, Len(seq)))

RotatedDroppingPrefix(h, a) == PySlice(h, a, Len(h)) \o [j \in 1..Len(PySlice(h, 0, a)) |-> 0]

\* list(half[a:]) + list(half[0:a])
Rotated(h, a) == PySlice(h, a, Len(h)) \o PySlice(h, 0, a)

ArgumentAfterInPlace(h, a) == [half |-> Rotated(h, a), fresh |-> FALSE]

\* The slices are copied into new lists and the result is a new vector: the
\* argument keeps its bits, and the result is an object of its own.
ArgumentAfter(h, a) == [half |-> h, fresh |-> TRUE]

DES_KS__left_shift(ks, h, i) ==
    IF ~PyIndexInRange(amount, i - 1)
    THEN [kind |-> "IndexError", ret |-> <<>>, amount |-> 0, half |-> h, fresh |-> TRUE]
    ELSE LET a == PyIndex(amount, i - 1)
         IN [kind |-> "ok", ret |-> Rotated(h, a), amount |-> a,
             half |-> ArgumentAfter(h, a).half, fresh |-> ArgumentAfter(h, a).fresh]

(***************************************************************************)
(* DES                                                                     *)
(***************************************************************************)
BlockSize == 64

RoundsAcceptedStrict(rounds, ksRounds) == rounds.v < ksRounds.v

\* rounds <= self._keySchedule._rounds
RoundsAccepted(rounds, ksRounds) == rounds.v <= ksRounds.v

DES___init__(h, rounds, keySchedule) ==
    LET ksArg == Default(keySchedule, PyFalse)
        rArg == Default(rounds, PyNone)
        made == DES_KS___init__(h, Omitted, Omitted)
        h1 == IF ksArg = PyNone THEN made.heap ELSE h
        ks == IF ksArg = PyNone THEN made.ret ELSE ksArg
        obj(r) == [type |-> "DES",
                   dict |-> [_keySchedule |-> ks, _rounds |-> r,
                             _blocksize |-> PyInt(BlockSize)]]
        done(r) == Outcome("ok", PyRef(Len(h1) + 1), <<>>, Append(h1, obj(r)))
    IN  \* Both branches that look at rounds read self._keySchedule._rounds.
        \* When __init__ raises, nothing refers to the instance or to the key
        \* schedule made for it: the heap is as before.
        IF ~HasAttr(h1, ks, "_rounds") THEN Outcome("AttributeError", PyNone, <<>>, h)
        ELSE IF rArg = PyNone THEN done(h1[ks.v].dict._rounds)
        ELSE IF RoundsAccepted(rArg, h1[ks.v].dict._rounds) THEN done(rArg)
        ELSE Outcome("ValueError", PyNone, <<>>, h)

DES_encrypt(h, c, P, K) == Outcome("NotImplementedError", PyNone, <<"DES.encrypt">>, h)

DES_decrypt(h, c, C, K) == Outcome("NotImplementedError", PyNone, <<"DES.decrypt">>, h)

DES___call__NoModeCheck(h, c, B, K, algorithm) ==
    LET alg == Default(algorithm, PyStr("encrypt"))
    IN IF PrimEq(alg, PyStr("encrypt")) THEN DES_encrypt(h, c, B, K)
       ELSE DES_decrypt(h, c, B, K)

DES___call__(h, c, B, K, algorithm) ==
    LET alg == Default(algorithm, PyStr("encrypt"))
    IN IF PrimEq(alg, PyStr("encrypt")) THEN DES_encrypt(h, c, B, K)
       ELSE IF PrimEq(alg, PyStr("decrypt")) THEN DES_decrypt(h, c, B, K)
       ELSE Outcome("ValueError", PyNone, <<>>, h)

\* == between two attribute values of a DES instance
ValueEq(h, a, b) ==
    IF TypeOf(h, a) = "DES_KS" THEN DES_KS___eq__(h, a, b)
    ELSE IF TypeOf(h, b) = "DES_KS" THEN DES_KS___eq__(h, b, a)
    ELSE PrimEq(a, b)

DES___eq__(h, a, other) ==
    IF TypeOf(h, other) # "DES" THEN FALSE
    ELSE LET d1 == h[a.v].dict
             d2 == h[other.v].dict
         IN DOMAIN d1 = DOMAIN d2 /\ \A k \in DOMAIN d1 : ValueEq(h, d1[k], d2[k])

\* the expression decrypt(encrypt(block, key), key): an exception ends it
RoundTrip(h, c, block, key) ==
    LET e == DES_encrypt(h, c, block, key)
    IN IF e.kind # "ok" THEN e
       ELSE Entered(DES_decrypt(e.heap, c, e.ret, key), e.calls)

(***************************************************************************)
(* The client of DES and DES_KS.                                           *)
(***************************************************************************)
Refs(h, type) == {PyRef(i) : i \in {j \in 1..Len(h) : h[j].type = type}}

\* rounds of a key schedule: the default and one more than the tables cover
KSRoundsArgs == {PyInt(DefaultRounds), PyInt(DefaultRounds + 1)}
\* rounds of a cipher: below, at and above the default
RoundsArgs == {PyInt(n) : n \in (DefaultRounds - 1)..(DefaultRounds + 1)}
KeyArgs == {PyInt(k) : k \in 0..MaxKey}
BlockArgs == {PyInt(b) : b \in 0..MaxBlock}
ModeArgs == {Omitted, PyStr("encrypt"), PyStr("decrypt"), PyStr("Encrypt"), PyStr("")}
\* values that are not instances of DES or DES_KS
Others == {PyNone, PyFalse, PyInt(DefaultRounds)}

Called(op, obj, args, o) ==
    [op |-> op, self |-> obj, args |-> args, kind |-> o.kind, ret |-> o.ret,
     calls |-> o.calls]

PyBool(b) == [t |-> "bool", v |-> IF b THEN 1 ELSE 0, s |-> ""]

\* The client holds one outcome at a time: it makes a call, looks at the outcome,
\* drops it and makes the next call.
NoCall == Called("none", PyNone, <<>>, Outcome("ok", PyNone, <<>>, <<>>))
Idle == last = NoCall

Init ==
    /\ heap = <<>>
    /\ last = NoCall
    /\ self = PyNone
    /\ half = <<>>
    /\ orig = <<>>
    /\ cur = <<>>
    /\ round = 0
    /\ acc = 0
    /\ shiftLast = [i |-> 0, arg |-> <<>>, kind |-> "none", ret |-> <<>>, fresh |-> TRUE]  \* no call yet

\* DES_KS(rounds, master_key)
NewKS ==
    \E rounds \in KSRoundsArgs \cup {Omitted}, key \in KeyArgs \cup {Omitted} :
        LET o == DES_KS___init__(heap, rounds, key)
        IN /\ Idle
           /\ Len(o.heap) <= MaxObjects
           /\ heap' = o.heap
           /\ last' = Called("DES_KS", PyNone, <<rounds, key>>, o)
           /\ UNCHANGED shiftVars

\* DES(rounds, keySchedule)
NewDES ==
    \E rounds \in RoundsArgs \cup {PyNone, Omitted},
       ks \in Refs(heap, "DES_KS") \cup {PyNone, Omitted} :
        LET o == DES___init__(heap, rounds, ks)
        IN /\ Idle
           /\ Len(o.heap) <= MaxObjects
           /\ heap' = o.heap
           /\ last' = Called("DES", PyNone, <<rounds, ks>>, o)
           /\ UNCHANGED shiftVars

\* cipher(B, K, algorithm)
Apply ==
    \E c \in Refs(heap, "DES"), B \in BlockArgs, K \in KeyArgs, mode \in ModeArgs :
        LET o == DES___call__(heap, c, B, K, mode)
        IN /\ Idle
           /\ heap' = o.heap
           /\ last' = Called("DES.__call__", c, <<B, K, mode>>, o)
           /\ UNCHANGED shiftVars

\* cipher.encrypt(P, K)
Encrypt ==
    \E c \in Refs(heap, "DES"), P \in BlockArgs, K \in KeyArgs :
        LET o == DES_encrypt(heap, c, P, K)
        IN /\ Idle
           /\ heap' = o.heap
           /\ last' = Called("DES.encrypt", c, <<P, K>>, o)
           /\ UNCHANGED shiftVars

\* cipher.decrypt(C, K)
Decrypt ==
    \E c \in Refs(heap, "DES"), C \in BlockArgs, K \in KeyArgs :
        LET o == DES_decrypt(heap, c, C, K)
        IN /\ Idle
           /\ heap' = o.heap
           /\ last' = Called("DES.decrypt", c, <<C, K>>, o)
           /\ UNCHANGED shiftVars

\* cipher.decrypt(cipher.encrypt(block, key), key)
EncryptDecrypt ==
    \E c \in Refs(heap, "DES"), block \in BlockArgs, key \in KeyArgs :
        LET o == RoundTrip(heap, c, block, key)
        IN /\ Idle
           /\ heap' = o.heap
           /\ last' = Called("roundtrip", c, <<block, key>>, o)
           /\ UNCHANGED shiftVars

\* ks[r]
GetItem ==
    \E ks \in Refs(heap, "DES_KS"), r \in {0, DefaultRounds - 1} :
        LET o == DES_KS___getitem__(heap, ks, r)
        IN /\ Idle
           /\ heap' = o.heap
           /\ last' = Called("DES_KS.__getitem__", ks, <<PyInt(r)>>, o)
           /\ UNCHANGED shiftVars

\* iter(ks)
Iter ==
    \E ks \in Refs(heap, "DES_KS") :
        LET o == DES_KS___iter__(heap, ks)
        IN /\ Idle
           /\ heap' = o.heap
           /\ last' = Called("DES_KS.__iter__", ks, <<>>, o)
           /\ UNCHANGED shiftVars

\* a.__eq__(b)
Compare ==
    \E a \in Refs(heap, "DES") \cup Refs(heap, "DES_KS"),
       b \in Refs(heap, "DES") \cup Refs(heap, "DES_KS") \cup Others :
        LET eq == IF TypeOf(heap, a) = "DES" THEN DES___eq__(heap, a, b)
                  ELSE DES_KS___eq__(heap, a, b)
        IN /\ Idle
           /\ heap' = heap
           /\ last' = Called("__eq__", a, <<b>>, Outcome("ok", PyBool(eq), <<>>, heap))
           /\ UNCHANGED shiftVars

Discard ==
    /\ ~Idle
    /\ last' = NoCall
    /\ UNCHANGED <<heap, shiftVars>>

Next ==
    \/ Discard
    \/ NewKS
    \/ NewDES
    \/ Apply
    \/ Encrypt
    \/ Decrypt
    \/ EncryptDecrypt
    \/ GetItem
    \/ Iter

Spec == Init /\ [][Next]_vars

(***************************************************************************)
(* The client comparing instances: it constructs two key schedules and two *)
(* ciphers, each cipher with either schedule, and compares what it has.    *)
(* A construction that raises leaves no object behind.                     *)
(***************************************************************************)
EqKeyArgs == {PyInt(k) : k \in 0..MaxEqKey} \cup {PyNone}

InitEq ==
    \E r1 \in KSRoundsArgs, r2 \in KSRoundsArgs, k1 \in EqKeyArgs, k2 \in EqKeyArgs,
       d1 \in RoundsArgs \cup {PyNone}, d2 \in RoundsArgs \cup {PyNone},
       s1 \in 1..2, s2 \in 1..2 :
        LET h1 == DES_KS___init__(<<>>, r1, k1).heap
            h2 == DES_KS___init__(h1, r2, k2).heap
            h3 == DES___init__(h2, d1, PyRef(s1)).heap
            h4 == DES___init__(h3, d2, PyRef(s2)).heap
        IN /\ heap = h4
           /\ last = NoCall
           /\ self = PyNone
           /\ half = <<>>
           /\ orig = <<>>
           /\ cur = <<>>
           /\ round = 0
           /\ acc = 0
           /\ shiftLast = [i |-> 0, arg |-> <<>>, kind |-> "none", ret |-> <<>>,
                           fresh |-> TRUE]

NextEq ==
    \/ Discard
    \/ Compare

SpecEq == InitEq /\ [][NextEq]_vars

(***************************************************************************)
(* The client of DES_KS._left_shift: it constructs a key schedule and one  *)
(* half, calls _left_shift on the half for any round index, and applies    *)
(* the rounds 1, 2, ... in turn, each to the result of the one before.     *)
(***************************************************************************)
NumRounds == Len(amount)

RECURSIVE BitSeqs(_)
BitSeqs(n) == IF n = 0 THEN {<<>>}
              ELSE {Append(b, x) : b \in BitSeqs(n - 1), x \in {0, 1}}

DocBits == <<1, 0, 1, 0, 1, 0>>

\* halves of the width DES uses: one bit set, none, all, and every other one
Halves28 ==
    {[j \in 1..28 |-> IF j = p THEN 1 ELSE 0] : p \in 0..28}
    \cup {[j \in 1..28 |-> 1], [j \in 1..28 |-> j % 2]}

HalfSet == UNION {BitSeqs(n) : n \in 0..MaxHalfLen} \cup {DocBits} \cup Halves28

IndexDomain == (1 - NumRounds - IndexSpan)..(NumRounds + IndexSpan)

NoShift == [i |-> 0, arg |-> <<>>, kind |-> "none", ret |-> <<>>, fresh |-> TRUE]

InitShift ==
    \E rounds \in KSRoundsArgs, h \in HalfSet :
        LET o == DES_KS___init__(<<>>, rounds, Omitted)
        IN /\ heap = o.heap
           /\ last = Called("DES_KS", PyNone, <<rounds, Omitted>>, o)
           /\ self = o.ret
           /\ half = h
           /\ orig = h
           /\ cur = h
           /\ round = 0
           /\ acc = 0
           /\ shiftLast = NoShift

\* self._left_shift(half, i); the client then looks at the result
ShiftOnce ==
    \E i \in IndexDomain :
        LET o == DES_KS__left_shift(self, half, i)
        IN /\ shiftLast = NoShift
           /\ half' = o.half
           /\ shiftLast' = [i |-> i, arg |-> half, kind |-> o.kind, ret |-> o.ret,
                            fresh |-> o.fresh]
           /\ UNCHANGED <<objVars, self, orig, cur, round, acc>>

\* the client drops the result
DiscardShift ==
    /\ shiftLast # NoShift
    /\ shiftLast' = NoShift
    /\ UNCHANGED <<objVars, self, half, orig, cur, round, acc>>

\* cur = self._left_shift(cur, round + 1); the first call takes the client's half
ShiftNextRound ==
    LET o == DES_KS__left_shift(self, cur, round + 1)
    IN /\ round < NumRounds
       /\ o.kind = "ok"
       /\ cur' = o.ret
       /\ round' = round + 1
       /\ acc' = acc + o.amount
       /\ half' = IF round = 0 THEN o.half ELSE half
       /\ UNCHANGED <<objVars, self, orig, shiftLast>>

NextShift ==
    \/ ShiftOnce
    \/ DiscardShift
    \/ ShiftNextRound

SpecShift == InitShift /\ [][NextShift]_vars

(***************************************************************************)
(* Properties of construction and dispatch, checked under Spec.  The       *)
(* configuration error of the design is the ValueError of the code.        *)
(***************************************************************************)
ConfigurationError == "ValueError"

Attr(h, ref, name) == h[ref.v].dict[name]

\* the round counts of every cipher on the heap and of its key schedule
RoundsWithinSchedule(h) ==
    \A c \in Refs(h, "DES") :
        Attr(h, c, "_rounds").v <= Attr(h, Attr(h, c, "_keySchedule"), "_rounds").v

\* C1: DES(rounds, keySchedule) with an integer rounds and a key schedule
\* succeeds exactly when rounds <= keySchedule._rounds, and then the new
\* cipher holds that rounds, that key schedule and blocksize 64; otherwise it
\* raises the configuration error and the heap holds no new object.  Every
\* cipher on the heap has rounds <= the rounds of its key schedule.
C1_ConstructionChecksRounds ==
    [][ /\ RoundsWithinSchedule(heap')
        /\ (last'.op = "DES" /\ last'.args[1].t = "int"
                /\ TypeOf(heap, last'.args[2]) = "DES_KS")
           => LET r == last'.args[1]
                  ks == last'.args[2]
                  made == [type |-> "DES",
                           dict |-> [_keySchedule |-> ks, _rounds |-> r,
                                     _blocksize |-> PyInt(64)]]
              IN IF r.v <= Attr(heap, ks, "_rounds").v
                 THEN /\ last'.kind = "ok"
                      /\ heap' = Append(heap, made)
                      /\ last'.ret = PyRef(Len(heap'))
                 ELSE /\ last'.kind = ConfigurationError
                      /\ heap' = heap ]_vars

\* C1 witness: a cipher with fewer rounds than its schedule exists, and a
\* construction with more rounds than the schedule has just been refused.
C1_Witness ==
    /\ last.op = "DES" /\ last.args[1].t = "int" /\ TypeOf(heap, last.args[2]) = "DES_KS"
    /\ last.args[1].v > Attr(heap, last.args[2], "_rounds").v
    /\ last.kind = ConfigurationError
    /\ \E c \in Refs(heap, "DES") :
           Attr(heap, c, "_rounds").v < Attr(heap, Attr(heap, c, "_keySchedule"), "_rounds").v

\* C2: DES(...) with keySchedule omitted succeeds and the cipher owns a
\* DES_KS with 16 rounds and no master key; with rounds omitted too, the
\* cipher's rounds is 16.
C2_DefaultKeySchedule ==
    (last.op = "DES" /\ last.args[2] = Omitted)
    => /\ last.kind = "ok"
       /\ LET ks == Attr(heap, last.ret, "_keySchedule")
          IN /\ TypeOf(heap, ks) = "DES_KS"
             /\ Attr(heap, ks, "_rounds") = PyInt(16)
             /\ Attr(heap, ks, "_master_key") = PyNone
       /\ last.args[1] = Omitted => Attr(heap, last.ret, "_rounds") = PyInt(16)

\* the kind, the value and the methods entered of an outcome
Seen(o) == <<o.kind, o.ret, o.calls>>

\* C3: cipher(B, K, algorithm) has the outcome of cipher.encrypt(B, K) when
\* algorithm is 'encrypt' or omitted, the outcome of cipher.decrypt(B, K)
\* when it is 'decrypt', and for any other string raises the configuration
\* error without entering encrypt or decrypt.
C3_DispatchByMode ==
    last.op = "DES.__call__"
    => LET B == last.args[1]
           K == last.args[2]
           mode == last.args[3]
       IN IF mode \in {Omitted, PyStr("encrypt")}
          THEN Seen(last) = Seen(DES_encrypt(heap, last.self, B, K))
               /\ last.calls = <<"DES.encrypt">>
          ELSE IF mode = PyStr("decrypt")
          THEN Seen(last) = Seen(DES_decrypt(heap, last.self, B, K))
               /\ last.calls = <<"DES.decrypt">>
          ELSE last.kind = ConfigurationError /\ last.calls = <<>>

\* C3 witness: a call with a mode that is neither string has been refused.
C3_Witness ==
    /\ last.op = "DES.__call__"
    /\ last.args[3] = PyStr("Encrypt")
    /\ last.kind = ConfigurationError

\* C4: decrypt(encrypt(block, key), key) returns a value, and it is block.
C4_Involution ==
    last.op = "roundtrip" => last.kind = "ok" /\ PrimEq(last.ret, last.args[1])

Unbound(h, ks) == Attr(h, ks, "_master_key") = PyNone

\* C5: ks[r] and iter(ks) on a key schedule without a master key raise the
\* configuration error at the call, before DES_KS.__call__ (the derivation)
\* is entered, and leave every object as it was.
C5_UnboundScheduleRefuses ==
    [][ (last'.op \in {"DES_KS.__getitem__", "DES_KS.__iter__"}
            /\ Unbound(heap, last'.self))
        => /\ last'.kind = ConfigurationError
           /\ last'.calls = <<>>
           /\ heap' = heap ]_vars

\* C5 witness: iteration over a schedule without a master key has been refused,
\* on a heap that also holds a schedule with one.
C5_Witness ==
    /\ last.op = "DES_KS.__iter__"
    /\ Unbound(heap, last.self)
    /\ last.kind = ConfigurationError
    /\ \E ks \in Refs(heap, "DES_KS") : ~Unbound(heap, ks)

(***************************************************************************)
(* Equality, checked under SpecEq.                                         *)
(***************************************************************************)
SameSchedule(h, a, b) ==
    /\ Attr(h, a, "_rounds") = Attr(h, b, "_rounds")
    /\ Attr(h, a, "_master_key") = Attr(h, b, "_master_key")

SameCipher(h, a, b) ==
    /\ Attr(h, a, "_rounds") = Attr(h, b, "_rounds")
    /\ DES_KS___eq__(h, Attr(h, a, "_keySchedule"), Attr(h, b, "_keySchedule"))
    /\ Attr(h, a, "_blocksize") = Attr(h, b, "_blocksize")

\* what a.__eq__(b) is to return for an instance a, by the structure of a and b
Structural(h, a, b) ==
    /\ TypeOf(h, a) = TypeOf(h, b)
    /\ IF TypeOf(h, a) = "DES" THEN SameCipher(h, a, b) ELSE SameSchedule(h, a, b)

\* C8: two key schedules are equal exactly when their rounds and their master
\* keys are; two ciphers exactly when their rounds, their key schedules (as
\* key schedules compare) and their blocksizes are; an instance never equals
\* a value of another type; and equality is reflexive and symmetric over the
\* instances constructed.
C8_StructuralEquality ==
    LET S == Refs(heap, "DES_KS")
        D == Refs(heap, "DES")
    IN /\ \A a \in S, b \in S : DES_KS___eq__(heap, a, b) <=> SameSchedule(heap, a, b)
       /\ \A a \in D, b \in D : DES___eq__(heap, a, b) <=> SameCipher(heap, a, b)
       /\ \A a \in S, b \in D \cup Others : ~DES_KS___eq__(heap, a, b)
       /\ \A a \in D, b \in S \cup Others : ~DES___eq__(heap, a, b)
       /\ \A a \in S : DES_KS___eq__(heap, a, a)
       /\ \A a \in D : DES___eq__(heap, a, a)
       /\ \A a \in S, b \in S : DES_KS___eq__(heap, a, b) <=> DES_KS___eq__(heap, b, a)
       /\ \A a \in D, b \in D : DES___eq__(heap, a, b) <=> DES___eq__(heap, b, a)
       /\ last.op = "__eq__"
          => last.ret = PyBool(Structural(heap, last.self, last.args[1]))

\* C8 witness: two ciphers, each with a key schedule of its own, have compared
\* equal, and the heap also holds what compares unequal: the schedules are two
\* objects with the same rounds and master key.
C8_Witness ==
    /\ last.op = "__eq__"
    /\ TypeOf(heap, last.self) = "DES" /\ TypeOf(heap, last.args[1]) = "DES"
    /\ last.self # last.args[1]
    /\ Attr(heap, last.self, "_keySchedule") # Attr(heap, last.args[1], "_keySchedule")
    /\ last.ret = PyBool(TRUE)

(***************************************************************************)
(* Properties of _left_shift, checked under SpecShift.                     *)
(***************************************************************************)
\* h rotated left by k places, position by position
Rot(h, k) == [j \in 1..Len(h) |-> h[((j - 1 + k) % Len(h)) + 1]]

StandardAmount(i) == IF i \in {1, 2, 9, 16} THEN 1 ELSE 2

ShiftCalled == shiftLast.kind # "none"

\* C6: for a round i in 1..16 and a half H of two bits or more,
\* _left_shift(H, i) is H[a:] ++ H[0:a] with a = 1 for the rounds 1, 2, 9 and
\* 16 and a = 2 otherwise: as long as H, with the bits of H a places further
\* left and the first a bits at the end.  (1,0,1,0,1,0) gives (0,1,0,1,0,1)
\* in round 1 and (1,0,1,0,1,0) in round 3.
C6_CircularRotation ==
    (ShiftCalled /\ shiftLast.i \in 1..16 /\ Len(shiftLast.arg) >= 2)
    => LET H == shiftLast.arg
           a == StandardAmount(shiftLast.i)
       IN /\ shiftLast.kind = "ok"
          /\ shiftLast.ret = SubSeq(H, a + 1, Len(H)) \o SubSeq(H, 1, a)
          /\ Len(shiftLast.ret) = Len(H)
          /\ shiftLast.ret = Rot(H, a)
          /\ (H = <<1, 0, 1, 0, 1, 0>> /\ shiftLast.i = 1)
             => shiftLast.ret = <<0, 1, 0, 1, 0, 1>>
          /\ (H = <<1, 0, 1, 0, 1, 0>> /\ shiftLast.i = 3)
             => shiftLast.ret = <<1, 0, 1, 0, 1, 0>>

\* C6 witness: round 16 has moved the one set bit of a four-bit half from the
\* front to the end.
C6_Witness ==
    /\ ShiftCalled /\ shiftLast.i = 16
    /\ shiftLast.arg = <<1, 0, 0, 0>>
    /\ shiftLast.ret = <<0, 0, 0, 1>>

\* C7: whatever calls of _left_shift were made on it, the half holds the bits
\* it was created with, in their order; a call that returns, returns a vector
\* of its own.
C7_NonDestructive ==
    /\ half = orig
    /\ (ShiftCalled /\ shiftLast.kind = "ok") => shiftLast.fresh

\* C7 witness: after the rounds 1 and 2 and a further call, whose result
\* differs from the half, the half is as created.
C7_Witness ==
    /\ round >= 2
    /\ ShiftCalled /\ shiftLast.kind = "ok"
    /\ shiftLast.ret # orig
    /\ cur # orig
    /\ half = orig

\* C9 as stated: a key schedule with more than 16 rounds is constructed without
\* error, and _left_shift raises for every round index outside 1..16.
C9_FailsOutsideOneToSixteen ==
    /\ last.op = "DES_KS" => last.kind = "ok"
    /\ (ShiftCalled /\ shiftLast.i \notin 1..16) => shiftLast.kind # "ok"

\* C9 amended: a key schedule with more than 16 rounds is constructed without
\* error and holds that number; _left_shift raises (IndexError) for every round
\* index above 16 and for every round index below -15; for an index i in
\* -15..0 it returns the half rotated by the amount of round i + 16.
C9_FailsAboveSixteen ==
    /\ (last.op = "DES_KS" /\ last.args[1].v > 16)
       => last.kind = "ok" /\ Attr(heap, self, "_rounds") = last.args[1]
    /\ (ShiftCalled /\ (shiftLast.i > 16 \/ shiftLast.i < -15))
       => shiftLast.kind = "IndexError"
    /\ (ShiftCalled /\ shiftLast.i \in -15..0)
       => /\ shiftLast.kind = "ok"
          /\ shiftLast.ret = Rot(shiftLast.arg, StandardAmount(shiftLast.i + 16))

\* C9 witness: on a key schedule of 17 rounds, round 17 has been refused for a
\* half of 28 bits.
C9_Witness ==
    /\ last.op = "DES_KS" /\ last.kind = "ok"
    /\ Attr(heap, self, "_rounds") = PyInt(17)
    /\ ShiftCalled /\ shiftLast.i = 17
    /\ Len(shiftLast.arg) = 28
    /\ shiftLast.kind = "IndexError"

\* C10: on a half of 28 bits the rounds 1..16, each applied to the result of
\* the one before, rotate by 28 in all and give the half back; after k rounds,
\* 0 < k < 16, the half is rotated by the sum of their amounts, which lies
\* strictly between 0 and 28.
C10_SixteenRoundsRestore ==
    Len(orig) = 28
    => /\ round = 16 => acc = 28 /\ cur = orig
       /\ round \in 1..15 => acc \in 1..27 /\ cur = Rot(orig, acc)

\* C10 witness: a half of 28 bits with one bit set, which every proper rotation
\* changes, is back after the 16 rounds.
C10_Witness ==
    /\ Len(orig) = 28
    /\ \A k \in 1..27 : Rot(orig, k) # orig
    /\ round = 16
    /\ cur = orig

====
